---- MODULE Spec2Model ----
(***************************************************************************)
(* Model of the concurrency-control benchmark: LockManager, TwoPLManager,  *)
(* OCCManager, Transaction, Metrics and the WorkloadExecutor worker loop.  *)
(*                                                                         *)
(* Every worker thread is a process with a program counter pc[w].  A step  *)
(* is one access to shared state (a store get/put, one iteration of a loop *)
(* over the lock table, one read or write of OCCManager.timestamp) joined  *)
(* with the thread-local computation that follows it.  A Python exception  *)
(* (KeyError, TypeError) that no caller catches ends the thread: pc[w]     *)
(* becomes "crashed" and whatever the thread held stays as it was.         *)
(***************************************************************************)
EXTENDS Integers, Sequences, FiniteSets, TLC

(* ------------------------------ bounds --------------------------------- *)
\* largest config.num_threads explored
MaxThreads == 2
\* largest config.num_transactions // config.num_threads (a worker's loop length)
TxnsPerWorker == 1
\* number of threads of the runs that explore the timestamp race
RaceThreads == 3

\* number of threads of the runs that explore a start timestamp falling behind
\* a commit timestamp
StaleThreads == RaceThreads + 1

Workers == 1..(IF MaxThreads > StaleThreads THEN MaxThreads ELSE StaleThreads)

\* The configurations explored, as <<hotset_size, keyspace_size, contention_probability
\* in percent>>: a single hot key that every transaction reads and writes, and a
\* key space of two keys from which any pair is drawn.
Configs == {<<1, 2, 100>>, <<1, 2, 50>>}
\* the keys "key<i>" some configuration can select (hotset_size <= keyspace_size)
Keys == UNION {0..(c[2] - 1) : c \in Configs}
NoHolder == 0

(* ------------------------------ values --------------------------------- *)
\* What KeyValueDB.get returns (json.loads of the stored bytes, or None), and
\* what a local_buffer slot's "value" field holds.
\*   NoneV    Python None (key absent from the store)
\*   IntV(n)  the JSON number n
\*   RecV(n)  the JSON object {"value": n}
NoneV == [t |-> "none", v |-> 0]
IntV(n) == [t |-> "int", v |-> n]
RecV(n) == [t |-> "rec", v |-> n]
\* local_buffer has no entry for the key
NoSlot == [t |-> "noslot", v |-> 0]

\* The value the keys hold when the run starts: absent, or loaded as a number.
InitValues == {NoneV, IntV(0)}

VARIABLES
  cfg,            \* Config: mode, num_threads, num_transactions, hotset_size,
                  \*         keyspace_size, contention_probability p (in percent)
  prepared,       \* who calls execute: FALSE, WorkloadExecutor.worker with the
                  \* Transaction as built; TRUE, a caller that first gives
                  \* local_buffer a slot for every key of the transaction
  pc,             \* per worker: position in worker() / execute()
  idx,            \* per worker: loop variable i of worker()
  txn,            \* per worker: the Transaction object of the current iteration
  store,          \* KeyValueDB contents
  locks,          \* LockManager.locks (a missing key reads as False)
  global_lock,    \* LockManager.global_lock: holder or NoHolder
  todo,           \* per worker: keys left in the running loop of try_acquire_all / release_all
  timestamp,      \* OCCManager.timestamp
  ts_lock,        \* OCCManager.ts_lock: holder or NoHolder
  validation_lock,\* OCCManager.validation_lock: holder or NoHolder
  reg,            \* per worker: the value loaded by the running "self.timestamp += 1"
  committed_txns, \* OCCManager.committed_txns
  commits,        \* Metrics.commits
  aborts,         \* Metrics.aborts
  response_times, \* Metrics.response_times: the number of entries of the list
  metrics_lock,   \* Metrics.lock: holder or NoHolder
  main,           \* the thread that called WorkloadExecutor.run: "joining" or "returned"
  phase,          \* which run of a two-run comparison this is (1 or 2)
  plan,           \* the <<key1, key2>> pairs of the transactions of the first run
  firstStore,     \* the store at the end of the first run
  initStore,      \* history: the store when the run started
  commitCalls,    \* history: completed record_commit calls
  abortCalls,     \* history: completed record_abort calls
  tsIssued,       \* history: the timestamps assigned so far
  tsReused,       \* history: some timestamp was assigned twice
  startLen,       \* history: Len(committed_txns) when the attempt's start_ts was assigned
  putCount,       \* history: number of puts per key
  readAt,         \* history: per worker, putCount of the read key when it was read
  attemptPuts     \* history: per worker, puts issued by the current execute call

vars == <<cfg, prepared, pc, idx, txn, store, locks, global_lock, todo, timestamp, ts_lock,
          validation_lock, reg, committed_txns, commits, aborts, response_times,
          metrics_lock, main, phase, plan, firstStore, initStore, commitCalls,
          abortCalls, tsIssued, tsReused, startLen, putCount, readAt,
          attemptPuts>>

lockVars == <<locks, global_lock, todo>>
occVars == <<timestamp, ts_lock, validation_lock, reg, committed_txns>>
metricVars == <<commits, aborts, response_times, metrics_lock>>
runVars == <<main, phase, plan, firstStore, initStore, commitCalls, abortCalls>>
histVars == <<runVars, tsIssued, tsReused, startLen, putCount, readAt,
              attemptPuts>>

Active(w) == w <= cfg.num_threads
\* range(config.num_transactions // config.num_threads)
LoopLength == cfg.num_transactions \div cfg.num_threads

(* --------------------------- Transaction ------------------------------- *)
\* Transaction.__init__: local_buffer = {}.
EmptyBuffer == [k \in Keys |-> NoSlot]
\* A buffer in which the caller of execute has created a slot {"value": 0}
\* for every key of the transaction.
PreparedBuffer(ks) == [k \in Keys |-> IF k \in ks THEN IntV(0) ELSE NoSlot]

NoTxn == [id |-> <<0, 0>>, read_set |-> {}, write_set |-> {}, buf |-> EmptyBuffer,
          start_ts |-> -1, commit_ts |-> -1]

NewTransaction(w, i, k1, k2, filled) ==
  [id |-> <<w, i>>, read_set |-> {k1}, write_set |-> {k2},
   buf |-> IF filled THEN PreparedBuffer({k1, k2}) ELSE EmptyBuffer,
   start_ts |-> -1, commit_ts |-> -1]

\* all_keys = list(set(txn.read_set + txn.write_set))
AllKeys(t) == t.read_set \cup t.write_set

\* "for key in txn.read_set: txn.local_buffer[key]["value"] = self.db.get(key)"
\* raises KeyError when local_buffer has no slot for a read key.
ReadRaises(t) == \E k \in t.read_set : t.buf[k] = NoSlot
ReadInto(t, st) == [k \in Keys |-> IF k \in t.read_set THEN st[k] ELSE t.buf[k]]

\* "for key in txn.write_set: txn.local_buffer[key]["value"] += 1"
\* raises KeyError without a slot, TypeError when the value is None or a dict.
IncRaises(b, ws) == \E k \in ws : b[k].t # "int"
Increment(b, ws) == [k \in Keys |-> IF k \in ws THEN IntV(b[k].v + 1) ELSE b[k]]

\* The read and compute loops of either executor, as a whole.
ExecRaises(t, st) == ReadRaises(t) \/ IncRaises(ReadInto(t, st), t.write_set)
ExecBuffer(t, st) == Increment(ReadInto(t, st), t.write_set)

\* "for key in txn.write_set: self.db.put(key, txn.local_buffer[key])":
\* the slot, a dict {"value": n}, is what is stored.
PutAll(st, t) == [k \in Keys |-> IF k \in t.write_set THEN RecV(t.buf[k].v) ELSE st[k]]

(* ---------------------------- select_keys ------------------------------ *)
\* random.random() < contention_probability
HotBranch == IF cfg.p = 100 THEN {TRUE} ELSE IF cfg.p = 0 THEN {FALSE} ELSE BOOLEAN
KeyRange_full(hot) == 0..(cfg.keyspace_size - 1)
KeyRange(hot) == IF hot THEN 0..(cfg.hotset_size - 1) ELSE 0..(cfg.keyspace_size - 1)

(* ---------------------------- LockManager ------------------------------ *)
\* "with self.global_lock": the lock can be taken when nobody holds it.
CanLock_always(g) == TRUE
CanLock(g) == g = NoHolder

\* first loop of try_acquire_all: some requested key is held
AnyHeld_all(l, ks) == \A k \in ks : l[k]
AnyHeld(l, ks) == \E k \in ks : l[k]

\* second loop of try_acquire_all, one iteration
MarkHeld_skip(l, k) == l
MarkHeld(l, k) == [l EXCEPT ![k] = TRUE]

\* loop of release_all, one iteration
ClearHeld_all(l, k) == [j \in Keys |-> FALSE]
ClearHeld(l, k) == [l EXCEPT ![k] = FALSE]

(* ------------------------------- Init ---------------------------------- *)
InitWith(mode, threads, perWorker, configs, plans) ==
  /\ cfg \in {[mode |-> mode, num_threads |-> n, num_transactions |-> n * perWorker,
               hotset_size |-> c[1], keyspace_size |-> c[2], p |-> c[3]] :
                 n \in threads, c \in configs}
  /\ prepared \in BOOLEAN
  /\ pc = [w \in Workers |-> IF Active(w) /\ LoopLength > 0 THEN "new" ELSE "done"]
  /\ idx = [w \in Workers |-> 0]
  /\ txn = [w \in Workers |-> NoTxn]
  /\ store \in {[k \in Keys |-> v] : v \in InitValues}
  /\ locks = [k \in Keys |-> FALSE]
  /\ global_lock = NoHolder
  /\ todo = [w \in Workers |-> {}]
  /\ timestamp = 0
  /\ ts_lock = NoHolder
  /\ validation_lock = NoHolder
  /\ reg = [w \in Workers |-> 0]
  /\ committed_txns = <<>>
  /\ commits = 0
  /\ aborts = 0
  /\ response_times = 0
  /\ metrics_lock = NoHolder
  /\ main = "joining"
  /\ phase = 1
  /\ plan \in plans
  /\ firstStore = store
  /\ initStore = store
  /\ commitCalls = 0
  /\ abortCalls = 0
  /\ tsIssued = {}
  /\ tsReused = FALSE
  /\ startLen = [w \in Workers |-> 0]
  /\ putCount = [k \in Keys |-> 0]
  /\ readAt = [w \in Workers |-> 0]
  /\ attemptPuts = [w \in Workers |-> 0]


(* ------------------------- WorkloadExecutor.worker --------------------- *)
\* "if config.mode == CCMode.OCC: occ_manager.execute(txn) else: twopl_manager.execute(txn)"
Entry == IF cfg.mode = "OCC" THEN "occ_start" ELSE "acquire"

\* keys = select_keys(config); txn = Transaction(...)
NewTxn(w) ==
  /\ pc[w] = "new"
  /\ \E hot \in HotBranch : \E k1 \in KeyRange(hot), k2 \in KeyRange(hot) :
       txn' = [txn EXCEPT ![w] = NewTransaction(w, idx[w], k1, k2, prepared)]
  /\ pc' = [pc EXCEPT ![w] = Entry]
  /\ attemptPuts' = [attemptPuts EXCEPT ![w] = 0]
  /\ UNCHANGED <<cfg, prepared, idx, store, lockVars, occVars, metricVars,
                 runVars, tsIssued, tsReused, startLen, putCount, readAt>>

\* The keys of the i-th transaction of worker w in a fixed sequence that lists
\* the transactions of the run worker by worker.
PlanAt(w) == plan[(w - 1) * LoopLength + idx[w] + 1]

\* The same, with the keys of the i-th transaction taken from a fixed sequence
\* instead of select_keys.
FixedTxn(w) ==
  /\ pc[w] = "new"
  /\ txn' = [txn EXCEPT ![w] = NewTransaction(w, idx[w], PlanAt(w)[1], PlanAt(w)[2],
                                              prepared)]
  /\ pc' = [pc EXCEPT ![w] = Entry]
  /\ attemptPuts' = [attemptPuts EXCEPT ![w] = 0]
  /\ UNCHANGED <<cfg, prepared, idx, store, lockVars, occVars, metricVars,
                 runVars, tsIssued, tsReused, startLen, putCount, readAt>>

\* success: txn.complete(); metrics.record_commit(txn) up to the load of
\* "self.commits += 1" under "with self.lock"
RecordCommit(w) ==
  /\ pc[w] = "ret_true"
  /\ CanLock(metrics_lock)
  /\ metrics_lock' = w
  /\ reg' = [reg EXCEPT ![w] = commits]
  /\ pc' = [pc EXCEPT ![w] = "commit_store"]
  /\ UNCHANGED <<cfg, prepared, idx, txn, store, lockVars, timestamp, ts_lock,
                 validation_lock, committed_txns, commits, aborts, response_times,
                 histVars>>

\* the store of "self.commits += 1", response_times.append(...), the end of
\* the with block; break.  The Transaction object is garbage from here on
\* (under OCC committed_txns keeps what validate reads of it).
RecordCommitEnd(w) ==
  /\ pc[w] = "commit_store"
  /\ commits' = reg[w] + 1
  /\ response_times' = response_times + 1
  /\ metrics_lock' = NoHolder
  /\ reg' = [reg EXCEPT ![w] = 0]
  /\ commitCalls' = commitCalls + 1
  /\ idx' = [idx EXCEPT ![w] = idx[w] + 1]
  /\ pc' = [pc EXCEPT ![w] = IF idx[w] + 1 < LoopLength THEN "new" ELSE "done"]
  /\ txn' = [txn EXCEPT ![w] = NoTxn]
  /\ readAt' = [readAt EXCEPT ![w] = 0]
  /\ attemptPuts' = [attemptPuts EXCEPT ![w] = 0]
  /\ startLen' = [startLen EXCEPT ![w] = 0]
  /\ UNCHANGED <<cfg, prepared, store, lockVars, timestamp, ts_lock, validation_lock,
                 committed_txns, aborts, main, phase, plan, firstStore, initStore,
                 abortCalls, tsIssued, tsReused, putCount>>

\* failure: metrics.record_abort() up to the load of "self.aborts += 1"
RecordAbort(w) ==
  /\ pc[w] = "ret_false"
  /\ CanLock(metrics_lock)
  /\ metrics_lock' = w
  /\ reg' = [reg EXCEPT ![w] = aborts]
  /\ pc' = [pc EXCEPT ![w] = "abort_store"]
  /\ UNCHANGED <<cfg, prepared, idx, txn, store, lockVars, timestamp, ts_lock,
                 validation_lock, committed_txns, commits, aborts, response_times,
                 histVars>>

\* the store of "self.aborts += 1", the end of the with block; the while loop
\* calls execute again with the same Transaction object.
RecordAbortEnd(w) ==
  /\ pc[w] = "abort_store"
  /\ aborts' = reg[w] + 1
  /\ metrics_lock' = NoHolder
  /\ reg' = [reg EXCEPT ![w] = 0]
  /\ abortCalls' = abortCalls + 1
  /\ pc' = [pc EXCEPT ![w] = Entry]
  /\ attemptPuts' = [attemptPuts EXCEPT ![w] = 0]
  /\ UNCHANGED <<cfg, prepared, idx, txn, store, lockVars, timestamp, ts_lock,
                 validation_lock, committed_txns, commits, response_times,
                 main, phase, plan, firstStore, initStore, commitCalls,
                 tsIssued, tsReused, startLen, putCount, readAt>>

\* A worker thread has ended: its loop is over, or an exception left worker().
Terminated(w) == pc[w] \in {"done", "crashed", "store_error"}

\* "for t in threads: t.join()" is over and run returns.
RunReturn ==
  /\ main = "joining"
  /\ \A w \in Workers : Terminated(w)
  /\ main' = "returned"
  /\ UNCHANGED <<cfg, prepared, pc, idx, txn, store, lockVars, occVars, metricVars,
                 phase, plan, firstStore, initStore, commitCalls, abortCalls,
                 tsIssued, tsReused, startLen, putCount, readAt, attemptPuts>>

(* ------------------- LockManager.try_acquire_all ----------------------- *)
\* "with self.global_lock:" entered
TryEnter(w) ==
  /\ pc[w] = "acquire"
  /\ CanLock(global_lock)
  /\ global_lock' = w
  /\ pc' = [pc EXCEPT ![w] = "try_check"]
  /\ UNCHANGED <<cfg, prepared, idx, txn, store, locks, todo, occVars, metricVars, histVars>>

\* "while not self.lock_manager.try_acquire_all(all_keys)": where execute
\* goes on when try_acquire_all returned False: it sleeps and tries again.
AfterFailedAcquire_abort == "ret_false"
AfterFailedAcquire == "backoff"

\* the first loop: return False (leaving the with block) if a key is held
TryCheck(w) ==
  /\ pc[w] = "try_check"
  /\ IF AnyHeld(locks, AllKeys(txn[w]))
       THEN /\ global_lock' = NoHolder
            /\ pc' = [pc EXCEPT ![w] = AfterFailedAcquire]
            /\ todo' = todo
       ELSE /\ global_lock' = global_lock
            /\ pc' = [pc EXCEPT ![w] = "try_mark"]
            /\ todo' = [todo EXCEPT ![w] = AllKeys(txn[w])]
  /\ UNCHANGED <<cfg, prepared, idx, txn, store, locks, occVars, metricVars, histVars>>

\* the second loop, one key per step
TryMark(w) ==
  /\ pc[w] = "try_mark"
  /\ \E k \in todo[w] :
       /\ locks' = MarkHeld(locks, k)
       /\ todo' = [todo EXCEPT ![w] = todo[w] \ {k}]
  /\ UNCHANGED <<cfg, prepared, pc, idx, txn, store, global_lock, occVars, metricVars, histVars>>

\* return True, leaving the with block
TryReturn(w) ==
  /\ pc[w] = "try_mark"
  /\ todo[w] = {}
  /\ global_lock' = NoHolder
  /\ pc' = [pc EXCEPT ![w] = "cs_exec"]
  /\ UNCHANGED <<cfg, prepared, idx, txn, store, locks, todo, occVars, metricVars, histVars>>

\* time.sleep(random.uniform(0.001, 0.005)) ends; the while loop tries again
Backoff(w) ==
  /\ pc[w] = "backoff"
  /\ pc' = [pc EXCEPT ![w] = "acquire"]
  /\ UNCHANGED <<cfg, prepared, idx, txn, store, lockVars, occVars, metricVars, histVars>>

(* ------------------------ TwoPLManager.execute ------------------------- *)
\* the read loop and the increment loop
CSExec(w) ==
  /\ pc[w] = "cs_exec"
  /\ IF ExecRaises(txn[w], store)
       THEN /\ pc' = [pc EXCEPT ![w] = "crashed"]
            /\ txn' = txn
            /\ readAt' = readAt
       ELSE /\ pc' = [pc EXCEPT ![w] = "cs_put"]
            /\ txn' = [txn EXCEPT ![w].buf = ExecBuffer(txn[w], store)]
            /\ readAt' = [readAt EXCEPT ![w] =
                            putCount[CHOOSE k \in txn[w].read_set : TRUE]]
  /\ UNCHANGED <<cfg, prepared, idx, store, lockVars, occVars, metricVars,
                 runVars, tsIssued, tsReused, startLen, putCount, attemptPuts>>

\* the put loop
CSPut(w) ==
  /\ pc[w] = "cs_put"
  /\ store' = PutAll(store, txn[w])
  /\ putCount' = [k \in Keys |-> IF k \in txn[w].write_set THEN putCount[k] + 1
                                  ELSE putCount[k]]
  /\ attemptPuts' = [attemptPuts EXCEPT ![w] = attemptPuts[w] + 1]
  /\ pc' = [pc EXCEPT ![w] = "release"]
  /\ UNCHANGED <<cfg, prepared, idx, txn, lockVars, occVars, metricVars,
                 runVars, tsIssued, tsReused, startLen, readAt>>

(* ----------------------- LockManager.release_all ----------------------- *)
RelEnter(w) ==
  /\ pc[w] = "release"
  /\ CanLock(global_lock)
  /\ global_lock' = w
  /\ todo' = [todo EXCEPT ![w] = AllKeys(txn[w])]
  /\ pc' = [pc EXCEPT ![w] = "rel_clear"]
  /\ UNCHANGED <<cfg, prepared, idx, txn, store, locks, occVars, metricVars, histVars>>

RelClear(w) ==
  /\ pc[w] = "rel_clear"
  /\ \E k \in todo[w] :
       /\ locks' = ClearHeld(locks, k)
       /\ todo' = [todo EXCEPT ![w] = todo[w] \ {k}]
  /\ UNCHANGED <<cfg, prepared, pc, idx, txn, store, global_lock, occVars, metricVars, histVars>>

\* release_all returns and execute returns True
RelReturn(w) ==
  /\ pc[w] = "rel_clear"
  /\ todo[w] = {}
  /\ global_lock' = NoHolder
  /\ pc' = [pc EXCEPT ![w] = "ret_true"]
  /\ UNCHANGED <<cfg, prepared, idx, txn, store, locks, todo, occVars, metricVars, histVars>>

(* ------------------------- OCCManager.validate ------------------------- *)
\* "for committed in self.committed_txns: if committed.commit_ts > txn.start_ts:
\*    if set(committed.write_set) & set(txn.read_set): return False" ... "return True"
RECURSIVE ValidateFrom(_, _, _)
ValidateFrom(cs, i, t) ==
  IF i > Len(cs) THEN TRUE
  ELSE IF cs[i].commit_ts > t.start_ts /\ (cs[i].write_set \cap t.read_set) # {}
         THEN FALSE
         ELSE ValidateFrom(cs, i + 1, t)

Validate_ww(cs, t) ==
  ~ \E i \in 1..Len(cs) :
      cs[i].commit_ts > t.start_ts /\ (cs[i].write_set \cap t.write_set) # {}
Validate_any(cs, t) ==
  ~ \E i \in 1..Len(cs) : (cs[i].write_set \cap t.read_set) # {}
Validate(cs, t) == ValidateFrom(cs, 1, t)

\* "return False" inside "with self.validation_lock:" releases the lock on
\* the way out.
ReturnInsideWith_keep(holder) == holder
ReturnInsideWith(holder) == NoHolder
\* Falling off the end of "with self.validation_lock:" releases the lock.
EndOfWith(holder) == NoHolder

\* what OCCManager keeps of a committed Transaction object
Committed(t) == [id |-> t.id, write_set |-> t.write_set,
                 start_ts |-> t.start_ts, commit_ts |-> t.commit_ts]

(* -------------------------- OCCManager.execute ------------------------- *)
\* "with self.ts_lock: txn.start_ts = self.timestamp"
StartAssign(w) ==
  /\ pc[w] = "occ_start"
  /\ CanLock(ts_lock)
  /\ ts_lock' = w
  /\ txn' = [txn EXCEPT ![w].start_ts = timestamp]
  /\ tsReused' = (tsReused \/ timestamp \in tsIssued)
  /\ tsIssued' = tsIssued \cup {timestamp}
  /\ startLen' = [startLen EXCEPT ![w] = Len(committed_txns)]
  /\ pc' = [pc EXCEPT ![w] = "occ_start_load"]
  /\ UNCHANGED <<cfg, prepared, idx, store, lockVars, timestamp, validation_lock, reg,
                 committed_txns, metricVars, runVars, putCount, readAt, attemptPuts>>

\* "self.timestamp += 1" under ts_lock: the load
StartLoad(w) ==
  /\ pc[w] = "occ_start_load"
  /\ reg' = [reg EXCEPT ![w] = timestamp]
  /\ pc' = [pc EXCEPT ![w] = "occ_start_store"]
  /\ UNCHANGED <<cfg, prepared, idx, txn, store, lockVars, timestamp, ts_lock, validation_lock,
                 committed_txns, metricVars, histVars>>

\* "self.timestamp += 1" under ts_lock: the store; the with block ends
StartStore(w) ==
  /\ pc[w] = "occ_start_store"
  /\ timestamp' = reg[w] + 1
  /\ reg' = [reg EXCEPT ![w] = 0]
  /\ ts_lock' = NoHolder
  /\ pc' = [pc EXCEPT ![w] = "occ_read"]
  /\ UNCHANGED <<cfg, prepared, idx, txn, store, lockVars, validation_lock,
                 committed_txns, metricVars, histVars>>

\* READ PHASE and the increment loop
ReadPhase(w) ==
  /\ pc[w] = "occ_read"
  /\ IF ExecRaises(txn[w], store)
       THEN /\ pc' = [pc EXCEPT ![w] = "crashed"]
            /\ txn' = txn
            /\ readAt' = readAt
       ELSE /\ pc' = [pc EXCEPT ![w] = "occ_validate"]
            /\ txn' = [txn EXCEPT ![w].buf = ExecBuffer(txn[w], store)]
            /\ readAt' = [readAt EXCEPT ![w] =
                            putCount[CHOOSE k \in txn[w].read_set : TRUE]]
  /\ UNCHANGED <<cfg, prepared, idx, store, lockVars, occVars, metricVars,
                 runVars, tsIssued, tsReused, startLen, putCount, attemptPuts>>

\* "with self.validation_lock: if not self.validate(txn): return False"
ValidatePhase(w) ==
  /\ pc[w] = "occ_validate"
  /\ CanLock(validation_lock)
  /\ IF Validate(committed_txns, txn[w])
       THEN /\ validation_lock' = w
            /\ pc' = [pc EXCEPT ![w] = "occ_put"]
       ELSE /\ validation_lock' = ReturnInsideWith(w)
            /\ pc' = [pc EXCEPT ![w] = "ret_false"]
  /\ UNCHANGED <<cfg, prepared, idx, txn, store, lockVars, timestamp, ts_lock, reg,
                 committed_txns, metricVars, histVars>>

\* WRITE PHASE
WritePhase(w) ==
  /\ pc[w] = "occ_put"
  /\ store' = PutAll(store, txn[w])
  /\ putCount' = [k \in Keys |-> IF k \in txn[w].write_set THEN putCount[k] + 1
                                  ELSE putCount[k]]
  /\ attemptPuts' = [attemptPuts EXCEPT ![w] = attemptPuts[w] + 1]
  /\ pc' = [pc EXCEPT ![w] = "occ_commit_ts"]
  /\ UNCHANGED <<cfg, prepared, idx, txn, lockVars, occVars, metricVars,
                 runVars, tsIssued, tsReused, startLen, readAt>>

\* "txn.commit_ts = self.timestamp" (under validation_lock, not under ts_lock)
CommitAssign(w) ==
  /\ pc[w] = "occ_commit_ts"
  /\ txn' = [txn EXCEPT ![w].commit_ts = timestamp]
  /\ tsReused' = (tsReused \/ timestamp \in tsIssued)
  /\ tsIssued' = tsIssued \cup {timestamp}
  /\ startLen' = startLen
  /\ pc' = [pc EXCEPT ![w] = "occ_commit_load"]
  /\ UNCHANGED <<cfg, prepared, idx, store, lockVars, occVars, metricVars,
                 runVars, putCount, readAt, attemptPuts>>

\* "self.timestamp += 1" under validation_lock: the load
CommitLoad(w) ==
  /\ pc[w] = "occ_commit_load"
  /\ reg' = [reg EXCEPT ![w] = timestamp]
  /\ pc' = [pc EXCEPT ![w] = "occ_commit_store"]
  /\ UNCHANGED <<cfg, prepared, idx, txn, store, lockVars, timestamp, ts_lock, validation_lock,
                 committed_txns, metricVars, histVars>>

\* "self.timestamp += 1": the store; committed_txns.append(txn); the with block
\* ends; return True
CommitStore(w) ==
  /\ pc[w] = "occ_commit_store"
  /\ timestamp' = reg[w] + 1
  /\ reg' = [reg EXCEPT ![w] = 0]
  /\ committed_txns' = Append(committed_txns, Committed(txn[w]))
  /\ validation_lock' = EndOfWith(w)
  /\ pc' = [pc EXCEPT ![w] = "ret_true"]
  /\ UNCHANGED <<cfg, prepared, idx, txn, store, lockVars, ts_lock, metricVars, histVars>>

(* --------------------------- specifications ---------------------------- *)
Init2PL == InitWith("TWO_PL", 1..MaxThreads, TxnsPerWorker, Configs, {<<>>})

Next2PL ==
  \/ \E w \in Workers :
    \/ NewTxn(w)
    \/ TryEnter(w)
    \/ TryCheck(w)
    \/ TryMark(w)
    \/ TryReturn(w)
    \/ Backoff(w)
    \/ CSExec(w)
    \/ CSPut(w)
    \/ RelEnter(w)
    \/ RelClear(w)
    \/ RelReturn(w)
    \/ RecordCommit(w)
    \/ RecordCommitEnd(w)
  \/ RunReturn

Spec2PL == Init2PL /\ [][Next2PL]_vars

NextOCC ==
  \/ \E w \in Workers :
    \/ NewTxn(w)
    \/ StartAssign(w)
    \/ StartLoad(w)
    \/ StartStore(w)
    \/ ReadPhase(w)
    \/ ValidatePhase(w)
    \/ WritePhase(w)
    \/ CommitAssign(w)
    \/ CommitLoad(w)
    \/ CommitStore(w)
    \/ RecordCommit(w)
    \/ RecordCommitEnd(w)
    \/ RecordAbort(w)
    \/ RecordAbortEnd(w)
  \/ RunReturn

\* self.db.get or self.db.put raises inside execute (RockStore fails).  Neither
\* execute nor worker catches anything: the exception ends the worker thread.
\* "with self.validation_lock" releases its lock on the way out; the 2PL held
\* flags stay as they are.
StoreFailure(w) ==
  /\ pc[w] \in {"cs_exec", "cs_put", "occ_read", "occ_put"}
  /\ validation_lock' = IF pc[w] = "occ_put" THEN NoHolder ELSE validation_lock
  /\ pc' = [pc EXCEPT ![w] = "store_error"]
  /\ UNCHANGED <<cfg, prepared, idx, txn, store, lockVars, timestamp, ts_lock, reg,
                 committed_txns, metricVars, histVars>>

\* Runs of either mode, one transaction per worker, in which the store can fail
InitFail ==
  \/ InitWith("TWO_PL", 1..MaxThreads, 1, Configs, {<<>>})
  \/ InitWith("OCC", 1..MaxThreads, 1, Configs, {<<>>})
NextFail ==
  \/ Next2PL
  \/ NextOCC
  \/ \E w \in Workers : StoreFailure(w)
SpecFail == InitFail /\ [][NextFail]_vars

\* The fixed transaction sequences of a serial run: <<read key, write key>>
\* pairs, SerialLength of them.
SerialLength == TxnsPerWorker + 1
RECURSIVE SeqsOf(_, _)
SeqsOf(S, n) ==
  IF n = 0 THEN {<<>>} ELSE {Append(q, x) : q \in SeqsOf(S, n - 1), x \in S}
Plans == SeqsOf(Keys \X Keys, SerialLength)

\* The first run, under TWO_PL, is over: the same sequence is run again under
\* OCC from the same initial store, with a new database, new managers and
\* new metrics.
SecondRun ==
  /\ main = "returned"
  /\ phase = 1
  /\ phase' = 2
  /\ firstStore' = store
  /\ store' = initStore
  /\ cfg' = [cfg EXCEPT !.mode = "OCC"]
  /\ main' = "joining"
  /\ pc' = [w \in Workers |-> IF Active(w) /\ LoopLength > 0 THEN "new" ELSE "done"]
  /\ idx' = [w \in Workers |-> 0]
  /\ txn' = [w \in Workers |-> NoTxn]
  /\ locks' = [k \in Keys |-> FALSE]
  /\ global_lock' = NoHolder
  /\ todo' = [w \in Workers |-> {}]
  /\ timestamp' = 0
  /\ ts_lock' = NoHolder
  /\ validation_lock' = NoHolder
  /\ reg' = [w \in Workers |-> 0]
  /\ committed_txns' = <<>>
  /\ commits' = 0
  /\ aborts' = 0
  /\ response_times' = 0
  /\ metrics_lock' = NoHolder
  /\ commitCalls' = 0
  /\ abortCalls' = 0
  /\ tsIssued' = {}
  /\ tsReused' = FALSE
  /\ startLen' = [w \in Workers |-> 0]
  /\ putCount' = [k \in Keys |-> 0]
  /\ readAt' = [w \in Workers |-> 0]
  /\ attemptPuts' = [w \in Workers |-> 0]
  /\ UNCHANGED <<prepared, plan, initStore>>

\* One thread runs a fixed sequence under TWO_PL and then under OCC.  With a
\* single thread try_acquire_all never finds a key held, so execute never
\* sleeps; whether the OCC run calls record_abort is what C18 is about, and
\* is read off the return value of execute.
InitSerial == InitWith("TWO_PL", {1}, SerialLength, Configs, Plans)
NextSerial ==
  \/ \E w \in Workers :
    \/ FixedTxn(w)
    \/ TryEnter(w)
    \/ TryCheck(w)
    \/ TryMark(w)
    \/ TryReturn(w)
    \/ CSExec(w)
    \/ CSPut(w)
    \/ RelEnter(w)
    \/ RelClear(w)
    \/ RelReturn(w)
    \/ StartAssign(w)
    \/ StartLoad(w)
    \/ StartStore(w)
    \/ ReadPhase(w)
    \/ ValidatePhase(w)
    \/ WritePhase(w)
    \/ CommitAssign(w)
    \/ CommitLoad(w)
    \/ CommitStore(w)
    \/ RecordCommit(w)
    \/ RecordCommitEnd(w)
  \/ RunReturn
  \/ SecondRun
SpecSerial == InitSerial /\ [][NextSerial]_vars

\* release_all is a public method: a thread calls it with any set of keys,
\* held or not, instead of running a transaction.  The call is carried by a
\* Transaction-shaped record whose read_set is the argument.
CallRelease(w) ==
  /\ pc[w] = "new"
  /\ \E ks \in (SUBSET Keys) \ {{}} :
       txn' = [txn EXCEPT ![w] = [NoTxn EXCEPT !.id = <<w, idx[w]>>, !.read_set = ks]]
  /\ pc' = [pc EXCEPT ![w] = "release"]
  /\ attemptPuts' = [attemptPuts EXCEPT ![w] = 0]
  /\ UNCHANGED <<cfg, prepared, idx, store, lockVars, occVars, metricVars,
                 runVars, tsIssued, tsReused, startLen, putCount, readAt>>

\* TWO_PL runs of one loop iteration per worker, in which an iteration is
\* either a transaction or a bare release_all call
InitLock == InitWith("TWO_PL", 1..MaxThreads, 1, Configs, {<<>>})
NextLock ==
  \/ Next2PL
  \/ \E w \in Workers : CallRelease(w)
SpecLock == InitLock /\ [][NextLock]_vars

\* Runs under any Config the constructor accepts: Config.__init__ stores its
\* arguments as they are, so num_threads may be 0 and mode may be a value that
\* is neither CCMode.OCC nor CCMode.TWO_PL.
InitConfig ==
  \E m \in {"OCC", "TWO_PL", "OTHER"} :
    InitWith(m, 0..MaxThreads, 1, Configs, {<<>>})
NextConfig ==
  \/ Next2PL
  \/ NextOCC
SpecConfig == InitConfig /\ [][NextConfig]_vars

\* OCC runs of StaleThreads workers, one transaction each.  Of the
\* interleavings, those are explored in which a thread is preempted only while
\* it waits for validation_lock or is between the load and the store of the
\* increment of the start timestamp: the thread that steps finds every other
\* thread at such a point, at the top of its loop, or ended.
SwitchPoints == {"new", "occ_start_store", "occ_validate"}
OthersAtSwitchPoint(w) ==
  \A v \in Workers \ {w} : pc[v] \in SwitchPoints \/ Terminated(v)
\* all threads but the last read key0 and write key1; the last one reads key1
\* and writes key0
StalePlans ==
  {[w \in 1..StaleThreads |-> IF w < StaleThreads THEN <<0, 1>> ELSE <<1, 0>>]}
InitStale == InitWith("OCC", {StaleThreads}, 1, {<<1, 2, 100>>}, StalePlans)
NextStale ==
  \/ \E w \in Workers :
    \/ OthersAtSwitchPoint(w) /\ FixedTxn(w)
    \/ OthersAtSwitchPoint(w) /\ StartAssign(w)
    \/ OthersAtSwitchPoint(w) /\ StartLoad(w)
    \/ OthersAtSwitchPoint(w) /\ StartStore(w)
    \/ OthersAtSwitchPoint(w) /\ ReadPhase(w)
    \/ OthersAtSwitchPoint(w) /\ ValidatePhase(w)
    \/ OthersAtSwitchPoint(w) /\ WritePhase(w)
    \/ OthersAtSwitchPoint(w) /\ CommitAssign(w)
    \/ OthersAtSwitchPoint(w) /\ CommitLoad(w)
    \/ OthersAtSwitchPoint(w) /\ CommitStore(w)
    \/ OthersAtSwitchPoint(w) /\ RecordCommit(w)
    \/ OthersAtSwitchPoint(w) /\ RecordCommitEnd(w)
    \/ OthersAtSwitchPoint(w) /\ RecordAbort(w)
    \/ OthersAtSwitchPoint(w) /\ RecordAbortEnd(w)
  \/ RunReturn
SpecStale == InitStale /\ [][NextStale]_vars

\* OCC runs with up to MaxThreads workers of one transaction each
InitOCC == InitWith("OCC", 1..MaxThreads, 1, Configs, {<<>>})
SpecOCC == InitOCC /\ [][NextOCC]_vars

\* OCC runs with RaceThreads workers of one transaction each
InitRace == InitWith("OCC", {RaceThreads}, 1, Configs, {<<>>})
SpecRace == InitRace /\ [][NextOCC]_vars

(* ------------------------------ properties ----------------------------- *)
\* The worker is between the successful return of try_acquire_all and the
\* completion of release_all in TwoPLManager.execute.
InCS(w) == pc[w] \in {"cs_exec", "cs_put", "release", "rel_clear"}
\* The worker is inside a "with self.global_lock:" block.
InLockManager(w) == pc[w] \in {"try_check", "try_mark", "rel_clear"}
SomeKeyHeld(w) == \E k \in AllKeys(txn[w]) : locks[k]

\* C1: two 2PL transactions whose key sets intersect are never inside their
\* critical sections at the same time.
C1_MutualExclusion ==
  \A w1 \in Workers, w2 \in Workers :
    (w1 # w2 /\ InCS(w1) /\ InCS(w2))
      => (AllKeys(txn[w1]) \cap AllKeys(txn[w2])) = {}

\* One transaction is in its critical section while another one, whose key
\* set overlaps, has been turned away by try_acquire_all.
C1_Witness ==
  \E w1 \in Workers, w2 \in Workers :
    /\ w1 # w2
    /\ InCS(w1)
    /\ pc[w2] = "backoff"
    /\ (AllKeys(txn[w1]) \cap AllKeys(txn[w2])) # {}

\* C2: a try_acquire_all call that finds a requested key held returns False,
\* and no held flag changes between its entry and its return.
C2_FailedAcquireNoEffect ==
  [][\A w \in Workers :
       pc[w] = "try_check" =>
         /\ locks' = locks
         /\ SomeKeyHeld(w) => pc'[w] \in {"try_check", "backoff"}]_vars

\* try_acquire_all({A, B}) has returned False with B held, and A is free.
C2_Witness ==
  \E w \in Workers :
    /\ pc[w] = "backoff"
    /\ \E a \in AllKeys(txn[w]), b \in AllKeys(txn[w]) :
         a # b /\ locks[b] /\ ~locks[a]

\* C3: try_acquire_all goes on to mark (and then returns True) exactly when
\* no requested key is held; when it returns True every requested key is held;
\* and a thread inside try_acquire_all or release_all owns global_lock, so the
\* lock table changes only under it and no second thread is inside with it.
C3_AtomicAcquire ==
  [][/\ \A w \in Workers :
          /\ (pc[w] = "try_check" /\ pc'[w] # "try_check")
               => (pc'[w] = "try_mark" <=> ~SomeKeyHeld(w))
          /\ (pc[w] = "try_check" /\ pc'[w] # "try_check")
               => pc'[w] \in {"try_mark", "backoff"}
          /\ (pc[w] = "try_mark" /\ pc'[w] = "cs_exec")
               => \A k \in AllKeys(txn[w]) : locks'[k]
          /\ InLockManager(w)' => global_lock' = w
     /\ locks' # locks =>
          (global_lock \in Workers /\ pc[global_lock] \in {"try_mark", "rel_clear"})
    ]_vars

\* A thread has marked part of a two-key set while another thread stands at
\* the entry of try_acquire_all or release_all.
C3_Witness ==
  \E w \in Workers, v \in Workers :
    /\ w # v
    /\ pc[w] = "try_mark"
    /\ todo[w] # {}
    /\ todo[w] # AllKeys(txn[w])
    /\ pc[v] \in {"acquire", "release"}

\* the conflict of the validation rule, on the history as it stands
Conflict(w) ==
  \E i \in 1..Len(committed_txns) :
    /\ committed_txns[i].commit_ts > txn[w].start_ts
    /\ (committed_txns[i].write_set \cap txn[w].read_set) # {}
InCommitPhase(w) ==
  pc[w] \in {"occ_put", "occ_commit_ts", "occ_commit_load", "occ_commit_store"}

\* C4: the validation of T returns False exactly when committed_txns holds a
\* transaction with a larger commit_ts than T's start_ts whose write set meets
\* T's read set; otherwise T goes on to write, is appended to committed_txns
\* and execute returns True.
C4_ValidationRule ==
  [][\A w \in Workers :
       /\ (pc[w] = "occ_validate" /\ pc'[w] # "occ_validate")
            => /\ Conflict(w) => pc'[w] = "ret_false"
               /\ ~Conflict(w) => pc'[w] = "occ_put"
       /\ InCommitPhase(w) => (InCommitPhase(w)' \/ pc'[w] = "ret_true")
       /\ (InCommitPhase(w) /\ pc'[w] = "ret_true")
            => /\ Len(committed_txns') = Len(committed_txns) + 1
               /\ committed_txns'[Len(committed_txns')].id = txn[w].id
    ]_vars

\* An execute call has returned False while a conflicting transaction is in
\* committed_txns, and another transaction has passed validation before.
C4_Witness ==
  \E w \in Workers :
    /\ pc[w] = "ret_false"
    /\ Conflict(w)
    /\ Len(committed_txns) > 0

\* the number a stored value carries
NumberOf(val) == val.v
RunEnded == \A w \in Workers : pc[w] \in {"done", "crashed"}
HotKeyRun == cfg.hotset_size = 1 /\ cfg.p = 100 /\ initStore[0].t = "int"

ReadKey(w) == CHOOSE k \in txn[w].read_set : TRUE

C8_AbortFrame ==
  [][\A w \in Workers :
       (pc[w] # "ret_false" /\ pc'[w] = "ret_false")
         => /\ store' = store
            /\ putCount' = putCount
            /\ attemptPuts'[w] = 0
            /\ timestamp' = timestamp
            /\ committed_txns' = committed_txns
            /\ txn'[w].commit_ts = -1
            /\ validation_lock' = NoHolder
    ]_vars

\* execute has returned False for a transaction that has its start timestamp,
\* with a commit in the history.
C8_Witness ==
  \E w \in Workers :
    /\ pc[w] = "ret_false"
    /\ txn[w].start_ts >= 0
    /\ committed_txns # <<>>
    /\ validation_lock = NoHolder

Stuck ==
  /\ \E w \in Workers : pc[w] \in {"acquire", "backoff"}
  /\ global_lock = NoHolder
  /\ \A v \in Workers :
       \/ pc[v] \in {"done", "crashed"}
       \/ (pc[v] \in {"acquire", "backoff"} /\ SomeKeyHeld(v))

\* C10: in TWO_PL mode no state is reached in which a worker has an unfinished
\* transaction and no step of any worker makes progress.
C10_NoStuckState == ~Stuck

\* Key k is held by a transaction whose execute call ended with an exception
\* inside the critical section: no release_all will clear it.
HeldByCrashed(k) ==
  /\ locks[k]
  /\ \E v \in Workers : pc[v] = "crashed" /\ k \in AllKeys(txn[v])

\* The execute call of w has ended without returning, or it retries the
\* acquisition of a key that will never be released.
CannotReturnTrue(w) ==
  \/ pc[w] = "crashed"
  \/ /\ pc[w] \in {"acquire", "try_check", "backoff"}
     /\ \E k \in AllKeys(txn[w]) : HeldByCrashed(k)

\* C11: every call to TwoPLManager.execute returns True in the end: no call
\* ends by an exception, and no call is in an acquisition loop that cannot
\* succeed any more.
C11_EveryCallReturns == \A w \in Workers : ~CannotReturnTrue(w)

\* the logical transaction id is in committed_txns exactly once
CommittedOnce(id) ==
  Cardinality({i \in 1..Len(committed_txns) : committed_txns[i].id = id}) = 1

\* C12: in OCC mode every logical transaction of the workload is committed,
\* exactly once, by the time the run is over: the driver retries each one
\* until its execute call returns True.
C12_EveryTxnCommits ==
  main = "returned"
    => \A w \in Workers :
         Active(w) => \A i \in 0..(LoopLength - 1) : CommittedOnce(<<w, i>>)

\* the local_buffer the transaction of w had when its first attempt started
FirstBuffer(w) ==
  IF prepared THEN PreparedBuffer(AllKeys(txn[w])) ELSE EmptyBuffer

\* w is about to call execute again after an abort
RetryStarts(w) == pc[w] = "occ_start" /\ txn[w].start_ts >= 0

C15_NoAbortIn2PL ==
  cfg.mode = "TWO_PL"
    => /\ aborts = 0
       /\ abortCalls = 0
       /\ \A w \in Workers : pc[w] \notin {"ret_false", "abort_store"}

\* A transaction has found a key held and still waits to try again when the
\* holder has committed, and no abort is recorded.
C15_Witness ==
  /\ cfg.mode = "TWO_PL"
  /\ \E w \in Workers : pc[w] = "backoff"
  /\ commits >= 1
  /\ aborts = 0

\* C16: when WorkloadExecutor.run has returned, each of the num_threads
\* workers has committed num_transactions div num_threads transactions and
\* the commit counter is the product of the two.
C16_CommitCount ==
  main = "returned"
    => /\ \A w \in Workers : Active(w) => idx[w] = LoopLength
       /\ commits = cfg.num_threads * LoopLength

\* C17: in every interleaving of the workers' record_commit and record_abort
\* calls, commits is the number of completed record_commit calls, aborts the
\* number of completed record_abort calls, and response_times has one entry
\* per commit.
C17_MetricsExact ==
  /\ commits = commitCalls
  /\ aborts = abortCalls
  /\ response_times = commits

\* A record_commit call is inside the with block while another worker waits
\* to enter record_commit, after an abort has been counted.
C17_Witness ==
  /\ aborts >= 1
  /\ \E w \in Workers, v \in Workers :
       /\ pc[w] = "commit_store"
       /\ metrics_lock = w
       /\ pc[v] = "ret_true"

\* C18: with one thread, the OCC run of a fixed transaction sequence has no
\* execute call that returns False and records no abort, and when it is over
\* the store is what the TWO_PL run of the same sequence from the same
\* initial store left.
C18_SerialEquivalence ==
  phase = 2
    => /\ aborts = 0
       /\ \A w \in Workers : pc[w] \notin {"ret_false", "abort_store"}
       /\ main = "returned" => store = firstStore

\* Both runs are over, every transaction of the sequence has committed in the
\* OCC run, and the store is not the initial one.
C18_Witness ==
  /\ phase = 2
  /\ main = "returned"
  /\ commits = cfg.num_transactions
  /\ store # initStore
  /\ \E i \in 1..Len(plan) : plan[i][1] # plan[i][2]

\* every key of the transaction of w is marked held
HoldsAll(w) == \A k \in AllKeys(txn[w]) : locks[k]

\* C19: every get and every put of a TwoPLManager.execute call happens while
\* all keys of read_set \cup write_set are held for the transaction, the store
\* changes only by such a put, and a held flag is cleared only by release_all
\* of a transaction that has done all its puts.
C19_Strict2PL ==
  [][/\ \A w \in Workers :
          /\ (pc[w] = "cs_exec" /\ pc'[w] # "cs_exec") => (HoldsAll(w) /\ HoldsAll(w)')
          /\ (pc[w] = "cs_put" /\ pc'[w] # "cs_put") => (HoldsAll(w) /\ HoldsAll(w)')
     /\ store' # store => \E w \in Workers : pc[w] = "cs_put" /\ HoldsAll(w)
     /\ (\E k \in Keys : locks[k] /\ ~locks'[k])
          => \E w \in Workers :
               /\ pc[w] = "rel_clear"
               /\ attemptPuts[w] = Cardinality(txn[w].write_set)
    ]_vars

\* release_all is clearing the flags of a transaction whose put has changed
\* the store.
C19_Witness ==
  \E w \in Workers :
    /\ pc[w] = "rel_clear"
    /\ attemptPuts[w] = 1
    /\ store # initStore
    /\ \E k \in AllKeys(txn[w]) : ~locks[k]

\* C20: WorkloadExecutor.run does not return normally once a transaction
\* attempt of one of its workers has hit a store failure.
C20_StoreFailurePropagates ==
  ~(main = "returned" /\ \E w \in Workers : pc[w] = "store_error")

\* the configuration errors of C21
ConfigError == cfg.num_threads = 0 \/ cfg.mode \notin {"OCC", "TWO_PL"}

\* C21: under a configuration with num_threads = 0 or with a mode that is
\* neither OCC nor TWO_PL no worker builds or executes a transaction.
C21_ConfigErrorRejected ==
  ConfigError => \A w \in Workers : pc[w] \in {"new", "done"} /\ txn[w] = NoTxn

\* w is inside release_all, under global_lock
Releasing(w) == pc[w] = "rel_clear" /\ global_lock = w

\* C22: release_all(keys) never sets a flag, changes the flag of no key
\* outside keys, ends only by returning, and when it returns every key of
\* keys is unheld, whether it was held before or not.
C22_ReleaseAll ==
  [][\A w \in Workers :
       Releasing(w)
         => /\ \A k \in Keys : ~locks[k] => ~locks'[k]
            /\ \A k \in Keys \ AllKeys(txn[w]) : locks'[k] = locks[k]
            /\ pc'[w] \in {"rel_clear", "ret_true"}
            /\ pc'[w] = "ret_true" => \A k \in AllKeys(txn[w]) : ~locks'[k]
    ]_vars

\* release_all is about to clear the flag of a key that is not held, while a
\* key outside its argument is held.
C22_Witness ==
  \E w \in Workers :
    /\ Releasing(w)
    /\ \E k \in todo[w] : ~locks[k]
    /\ \E k \in Keys \ AllKeys(txn[w]) : locks[k]

\* w completes a timestamp assignment: the store of "self.timestamp += 1"
AssignmentEnds(w) ==
  /\ pc[w] \in {"occ_start_store", "occ_commit_store"}
  /\ pc'[w] # pc[w]

Holding(w) == pc[w] \in {"cs_exec", "cs_put", "release"}

\* the transactions inside their critical section that have k in their key set
HoldersOf(k) == {w \in Workers : Holding(w) /\ k \in AllKeys(txn[w])}

\* C24: whenever no thread is inside the lock manager, a key's held flag is
\* true if and only if exactly one transaction inside its critical section has
\* the key in read_set \cup write_set; so every transaction holds all of its
\* keys or none.
C24_Ownership ==
  global_lock = NoHolder
    => \A k \in Keys : locks[k] <=> Cardinality(HoldersOf(k)) = 1

\* C25: for a Transaction as the driver creates it (local_buffer empty) the
\* read and compute loops of OCCManager.execute end without an exception, and
\* local_buffer then holds the stored value of every read key that is not
\* also incremented.
C25_FreshReadCompletes ==
  [][\A w \in Workers :
       (~prepared /\ pc[w] = "occ_read" /\ pc'[w] # "occ_read")
         => /\ pc'[w] = "occ_validate"
            /\ \A k \in txn[w].read_set \ txn[w].write_set : txn'[w].buf[k] = store[k]
    ]_vars

\* The TwoPLManager.execute call of w ends with this step: it returns, or a
\* store get or put raised inside the critical section.
ExecuteStops(w) ==
  /\ pc[w] \in {"cs_exec", "cs_put", "rel_clear"}
  /\ pc'[w] \in {"ret_true", "store_error"}

\* C26: when TwoPLManager.execute stops running for a transaction, by
\* returning or by a store failure, none of the transaction's keys is left
\* held.
C26_NoKeyLeftHeld ==
  [][\A w \in Workers :
       ExecuteStops(w) => \A k \in AllKeys(txn[w]) : ~locks'[k]
    ]_vars

BlockedOnLock(w) ==
  \/ pc[w] = "occ_start" /\ ts_lock # NoHolder
  \/ pc[w] = "occ_validate" /\ validation_lock # NoHolder
  \/ pc[w] \in {"ret_true", "ret_false"} /\ metrics_lock # NoHolder
Unfinished(w) == pc[w] \notin {"done", "crashed", "store_error"}

\* C29: in an OCC run no thread holds ts_lock and validation_lock together
\* or is about to take one while it holds the other, and while a worker is
\* unfinished some unfinished worker is not waiting for a lock.
C29_OCCDeadlockFree ==
  /\ \A w \in Workers :
       /\ ~(ts_lock = w /\ validation_lock = w)
       /\ pc[w] = "occ_start" => validation_lock # w
       /\ pc[w] = "occ_validate" => ts_lock # w
  /\ (\E w \in Workers : Unfinished(w))
       => \E w \in Workers : Unfinished(w) /\ ~BlockedOnLock(w)

\* A worker waits for validation_lock, which another worker holds.
C29_Witness ==
  \E w \in Workers, v \in Workers :
    /\ w # v
    /\ pc[w] = "occ_validate"
    /\ validation_lock = v
    /\ BlockedOnLock(w)

HotSet == 0..(cfg.hotset_size - 1)
KeySpace == 0..(cfg.keyspace_size - 1)

\* C30: every transaction the driver has built has one read key and one write
\* key, both in the hot set or both in the key space; both are in the hot set
\* when contention_probability is 1.0, and no key index reaches keyspace_size
\* when hotset_size <= keyspace_size.
C30_KeySelection ==
  \A w \in Workers :
    txn[w] # NoTxn
      => /\ Cardinality(txn[w].read_set) = 1
         /\ Cardinality(txn[w].write_set) = 1
         /\ AllKeys(txn[w]) \subseteq HotSet \/ AllKeys(txn[w]) \subseteq KeySpace
         /\ cfg.p = 100 => AllKeys(txn[w]) \subseteq HotSet
         /\ cfg.hotset_size <= cfg.keyspace_size
              => \A k \in AllKeys(txn[w]) : k < cfg.keyspace_size

\* Two transactions of a run with contention_probability 0.5: one with two
\* different keys, one outside the hot set, and one with the same hot key
\* twice.
C30_Witness ==
  /\ cfg.p = 50
  /\ \E w \in Workers, v \in Workers :
       /\ txn[w] # NoTxn
       /\ txn[w].read_set # txn[w].write_set
       /\ ~(AllKeys(txn[w]) \subseteq HotSet)
       /\ txn[v] # NoTxn
       /\ txn[v].read_set = txn[v].write_set
       /\ AllKeys(txn[v]) \subseteq HotSet

\* the execute call of w fails validation with this step
FailsValidation(w) == pc[w] = "occ_validate" /\ pc'[w] = "ret_false"

====
